---------------------------- MODULE Spec2Model ----------------------------
(***************************************************************************)
(* ser2tcp: one serial reader thread publishes chunks on an mpsc channel,  *)
(* the main thread fans every chunk out to the senders kept in a           *)
(* mutex-guarded Vec (the registry), the listener thread pushes one sender *)
(* per accepted connection and spawns one writer thread per connection.    *)
(*                                                                         *)
(* Threads are modelled by their program counters; every action is one     *)
(* step a thread takes between two points where another thread can        *)
(* observe or change shared state (channels, the registry, its lock).      *)
(***************************************************************************)
EXTENDS Integers, Sequences, FiniteSets, TLC

\* ------------------------------------------------------------------ bounds
\* Spec: the number of successful reads the serial device delivers, and the
\* number of connections the environment makes to the listener.
MaxChunks == 2
MaxClients == 1
\* ScenarioSpec: the same two numbers for the scenarios with chunks A, B, C
\* and two clients.
ScenarioChunks == 3
ScenarioClients == 2

\* ----------------------------------------------------------- program data
\* let mut buf = [0; 1024];
BufSize == 1024
\* port.read(&mut buf) returns Ok(n) with 0 <= n <= buf.len()
ReadSizes == {0, BufSize}


\* let v = buf[..n].to_vec();
MkChunk(k, n) == [id |-> k, len |-> n]
NoChunk == MkChunk(0, 0)

VARIABLES
    \* ---- environment
    srcChunks,      \* successful reads the serial device will deliver
    srcClients,     \* connections that will be made to the listener
    \* ---- serial reader thread (handle_serial_port)
    readerPc,       \* "run" | "done"
    readResult,     \* outcome of the latest port.read: "none"|"ok"|"timeout"|"error"
    nread,          \* number of Ok(n) reads so far (the id of the latest chunk)
    serialQ,        \* the mpsc channel serial_reader_tx -> serial_reader_rx
    serialRxAlive,  \* serial_reader_rx not yet dropped
    \* ---- main thread (run)
    mainPc,         \* "recv" | "lock" | "send" | "join" | "returned"
    mainBuf,        \* buf of the current iteration of `for buf in serial_reader_rx`
    passIdx,        \* index in the Vec of the next sender retain_mut visits
    \* ---- shared
    registry,       \* tcp_write_senders: Vec<Sender>, as the clients' numbers
    lock,           \* holder of the Mutex: "free" | "main" | "listener"
    poisoned,       \* the Mutex is poisoned (a holder panicked)
    \* ---- listener thread (handle_tcp_listener)
    acceptorPc,     \* "bind"|"accept"|"lock"|"push"|"spawn"|"done"|"panicked"
    nclients,       \* connections accepted so far; the current one is nclients
    \* ---- per connection (handle_tcp_stream)
    chan,           \* the mpsc channel tcp_write_tx -> tcp_write_rx
    rxAlive,        \* tcp_write_rx not yet dropped
    wPc,            \* "none" | "connected" | "streaming" | "writing" | "closed"
    wBuf,           \* buf of the current iteration of `for buf in tcp_writer_rx`
    sockOpen,       \* the peer has not closed the connection
    written,        \* chunks write_all has written to the socket, in order
    \* ---- history (observations, read by no action's guard)
    sent,           \* ids of the chunks enqueued on each client's channel
    passId,         \* id of the chunk of the latest pass that took the lock
    passSnap,       \* clients in the registry when that pass took the lock
    regPass,        \* passId at the moment the client's sender was pushed
    regRead,        \* nread at the moment the client's sender was pushed
    removed,        \* how many times the client's sender was removed
    deadSends       \* sends attempted on the client's sender after its rx was dropped

vars == <<srcChunks, srcClients, readerPc, readResult, nread, serialQ,
          serialRxAlive, mainPc, mainBuf,
          passIdx, registry, lock, poisoned, acceptorPc, nclients, chan,
          rxAlive, wPc, wBuf, sockOpen, written, sent, passId, passSnap,
          regPass, regRead, removed, deadSends>>

envVars == <<srcChunks, srcClients>>
readerVars == <<readerPc, readResult, nread, serialQ, serialRxAlive>>
mainVars == <<mainPc, mainBuf, passIdx>>
sharedVars == <<registry, lock, poisoned>>
acceptorVars == <<acceptorPc, nclients>>
writerVars == <<wPc, wBuf, written>>
histVars == <<sent, passId, passSnap, regPass, regRead, removed, deadSends>>

\* ----------------------------------------------------------------- helpers
Clients == 1..srcClients

Range(s) == {s[i] : i \in 1..Len(s)}

Ids(s) == [i \in 1..Len(s) |-> s[i].id]

InitFor(chunks, clients) ==
    /\ srcChunks = chunks
    /\ srcClients = clients
    /\ readerPc = "run"
    /\ readResult = "none"
    /\ nread = 0
    /\ serialQ = <<>>
    /\ serialRxAlive = TRUE
    /\ mainPc = "recv"
    /\ mainBuf = NoChunk
    /\ passIdx = 1
    /\ registry = <<>>
    /\ lock = "free"
    /\ poisoned = FALSE
    /\ acceptorPc = "bind"
    /\ nclients = 0
    /\ chan = [c \in 1..clients |-> <<>>]
    /\ rxAlive = [c \in 1..clients |-> FALSE]
    /\ wPc = [c \in 1..clients |-> "none"]
    /\ wBuf = [c \in 1..clients |-> NoChunk]
    /\ sockOpen = [c \in 1..clients |-> FALSE]
    /\ written = [c \in 1..clients |-> <<>>]
    /\ sent = [c \in 1..clients |-> <<>>]
    /\ passId = 0
    /\ passSnap = {}
    /\ regPass = [c \in 1..clients |-> 0]
    /\ regRead = [c \in 1..clients |-> 0]
    /\ removed = [c \in 1..clients |-> 0]
    /\ deadSends = [c \in 1..clients |-> 0]

Init == InitFor(MaxChunks, MaxClients)

ScenarioInit == InitFor(ScenarioChunks, ScenarioClients)


\* ------------------------------------------------------- channel primitives
\* Faulty variant: a channel of capacity 1 (sync_channel(1)): a send waits for room.
CanSendBounded(q) == Len(q) < 1

\* mpsc::channel(): an unbounded FIFO queue; Sender::send never blocks.
CanSend(q) == TRUE

\* Faulty variant: the value joins the head of the queue (a LIFO channel).
EnqueueFront(q, v) == <<v>> \o q

\* Sender::send on a channel whose Receiver exists: the value joins the tail.
Enqueue(q, v) == Append(q, v)

\* Sender::send(..).is_ok(): the send fails exactly when the Receiver is gone.
SendOk(c) == rxAlive[c]

\* Faulty variant: a failed send leaves the sender in the Vec.
RetainAll(reg, i, ok) == reg

\* Faulty variant: the closure's result is inverted: a sender is removed when its send
\* succeeded and kept when it failed.
RetainInverted(reg, i, ok) ==
    IF ~ok THEN reg
           ELSE [j \in 1..(Len(reg) - 1) |-> IF j < i THEN reg[j] ELSE reg[j + 1]]

\* Faulty variant: a failed send removes the last element of the Vec instead
\* of the one the send was made on.
RetainPopsLast(reg, i, ok) ==
    IF ok THEN reg ELSE SubSeq(reg, 1, Len(reg) - 1)

\* Vec::retain_mut's effect for the visited element, the i-th: kept when the
\* closure returned true, removed otherwise; the others keep their order.
Retain(reg, i, ok) ==
    IF ok THEN reg
          ELSE [j \in 1..(Len(reg) - 1) |-> IF j < i THEN reg[j] ELSE reg[j + 1]]

\* A client's Sender exists: it is in the registry, or the listener still
\* holds it between mpsc::channel() and the push.
TxAlive(c) ==
    \/ c \in Range(registry)
    \/ acceptorPc \in {"lock", "push"} /\ nclients = c

\* --------------------------------------------- serial reader thread
\* port.read -> Ok(n); v = buf[..n].to_vec(); tx.send(v): Ok -> continue,
\* Err (receiver dropped) -> break.
SerialReadOk ==
    /\ readerPc = "run"
    /\ nread < srcChunks
    /\ CanSend(serialQ)
    /\ \E n \in ReadSizes :
         /\ readResult' = "ok"
         /\ nread' = nread + 1
         /\ IF serialRxAlive
              THEN /\ serialQ' = Enqueue(serialQ, MkChunk(nread + 1, n))
                   /\ readerPc' = "run"
              ELSE /\ serialQ' = serialQ
                   /\ readerPc' = "done"
    /\ UNCHANGED <<envVars, serialRxAlive, mainVars, sharedVars, acceptorVars,
                   chan,
                   rxAlive, writerVars, sockOpen, histVars>>

\* Faulty variant: a timeout is handled like any other read error.
SerialReadTimeoutBreaks ==
    /\ readerPc = "run"
    /\ readResult' = "timeout"
    /\ readerPc' = "done"
    /\ UNCHANGED <<envVars, nread, serialQ, serialRxAlive, mainVars, sharedVars,
                   acceptorVars, chan, rxAlive, writerVars, sockOpen, histVars>>

\* port.read -> Err(e) with e.kind() == TimedOut: the arm is {}, the loop goes on.
SerialReadTimeout ==
    /\ readerPc = "run"
    /\ readResult' = "timeout"
    /\ UNCHANGED <<envVars, readerPc, nread, serialQ, serialRxAlive, mainVars,
                   sharedVars,
                   acceptorVars, chan, rxAlive, writerVars, sockOpen, histVars>>

\* port.read -> any other Err: break; the thread returns and drops tx.
SerialReadErr ==
    /\ readerPc = "run"
    /\ readResult' = "error"
    /\ readerPc' = "done"
    /\ UNCHANGED <<envVars, nread, serialQ, serialRxAlive, mainVars, sharedVars,
                   acceptorVars, chan, rxAlive, writerVars, sockOpen, histVars>>

\* --------------------------------------------------- main thread (run)
\* Faulty variant: the loop takes the newest queued chunk and discards the
\* ones queued before it.
MainRecvLatest ==
    /\ mainPc = "recv"
    /\ serialQ # <<>>
    /\ mainBuf' = serialQ[Len(serialQ)]
    /\ serialQ' = <<>>
    /\ mainPc' = "lock"
    /\ UNCHANGED <<envVars, readerPc, readResult, nread, serialRxAlive, passIdx,
                   sharedVars, acceptorVars, chan, rxAlive, writerVars,
                   sockOpen, histVars>>

\* `for buf in serial_reader_rx`: the next chunk, when one is queued.
MainRecv ==
    /\ mainPc = "recv"
    /\ serialQ # <<>>
    /\ mainBuf' = Head(serialQ)
    /\ serialQ' = Tail(serialQ)
    /\ mainPc' = "lock"
    /\ UNCHANGED <<envVars, readerPc, readResult, nread, serialRxAlive, passIdx,
                   sharedVars, acceptorVars, chan, rxAlive, writerVars,
                   sockOpen, histVars>>

\* Faulty variant: the loop ends as soon as the reader has returned, and the
\* chunks still queued are dropped with the Receiver.
MainLoopEndDropsPending ==
    /\ mainPc = "recv"
    /\ readerPc = "done"
    /\ serialQ' = <<>>
    /\ serialRxAlive' = FALSE
    /\ mainPc' = "join"
    /\ UNCHANGED <<envVars, readerPc, readResult, nread, mainBuf, passIdx,
                   sharedVars, acceptorVars, chan, rxAlive, writerVars,
                   sockOpen, histVars>>

\* Faulty variant: the loop ends as soon as the queue is found empty (a
\* try_recv loop), whether or not the reader still runs.
MainLoopEndWhenEmpty ==
    /\ mainPc = "recv"
    /\ serialQ = <<>>
    /\ serialRxAlive' = FALSE
    /\ mainPc' = "join"
    /\ UNCHANGED <<envVars, readerPc, readResult, nread, serialQ, mainBuf,
                   passIdx,
                   sharedVars, acceptorVars, chan, rxAlive, writerVars,
                   sockOpen, histVars>>

\* The iterator ends when the queue is empty and the Sender is dropped (the
\* reader returned); serial_reader_rx is dropped and serial_reader.join()
\* returns at once.
MainLoopEnd ==
    /\ mainPc = "recv"
    /\ serialQ = <<>>
    /\ readerPc = "done"
    /\ serialRxAlive' = FALSE
    /\ mainPc' = "join"
    /\ UNCHANGED <<envVars, readerPc, readResult, nread, serialQ, mainBuf,
                   passIdx,
                   sharedVars, acceptorVars, chan, rxAlive, writerVars,
                   sockOpen, histVars>>

\* Faulty variant: run returns without joining the listener thread.
MainJoinNoWait ==
    /\ mainPc = "join"
    /\ mainPc' = "returned"
    /\ UNCHANGED <<envVars, readerVars, mainBuf, passIdx, sharedVars,
                   acceptorVars,
                   chan, rxAlive, writerVars, sockOpen, histVars>>

\* listener_thread.join(): returns when the listener thread has returned or
\* panicked.
MainJoinListener ==
    /\ mainPc = "join"
    /\ acceptorPc \in {"done", "panicked"}
    /\ mainPc' = "returned"
    /\ UNCHANGED <<envVars, readerVars, mainBuf, passIdx, sharedVars,
                   acceptorVars,
                   chan, rxAlive, writerVars, sockOpen, histVars>>

\* Faulty variant: lock().unwrap(), the poisoned Mutex makes the main thread
\* panic out of run.
MainLockUnwrap ==
    /\ mainPc = "lock"
    /\ IF poisoned
         THEN /\ mainPc' = "returned"
              /\ mainBuf' = NoChunk
              /\ UNCHANGED <<passIdx, lock, passId, passSnap>>
         ELSE /\ lock = "free"
              /\ lock' = "main"
              /\ mainPc' = "send"
              /\ passIdx' = 1
              /\ passId' = mainBuf.id
              /\ passSnap' = Range(registry)
              /\ UNCHANGED mainBuf
    /\ UNCHANGED <<envVars, readerVars, registry, poisoned, acceptorVars, chan,
                   rxAlive,
                   writerVars, sockOpen, sent, regPass, regRead, removed,
                   deadSends>>

\* tcp_write_senders.lock(): Err (poisoned) -> continue with the next chunk;
\* otherwise the thread blocks until the Mutex is free and takes it.
MainLock ==
    /\ mainPc = "lock"
    /\ IF poisoned
         THEN /\ mainPc' = "recv"
              /\ mainBuf' = NoChunk
              /\ UNCHANGED <<passIdx, lock, passId, passSnap>>
         ELSE /\ lock = "free"
              /\ lock' = "main"
              /\ mainPc' = "send"
              /\ passIdx' = 1
              /\ passId' = mainBuf.id
              /\ passSnap' = Range(registry)
              /\ UNCHANGED mainBuf
    /\ UNCHANGED <<envVars, readerVars, registry, poisoned, acceptorVars, chan,
                   rxAlive,
                   writerVars, sockOpen, sent, regPass, regRead, removed,
                   deadSends>>

\* One element of retain_mut(|tx| tx.send(buf.clone()).is_ok()): the next
\* element is the one after it, or the one that took its place.
MainSend ==
    /\ mainPc = "send"
    /\ passIdx <= Len(registry)
    /\ LET c == registry[passIdx]
           ok == SendOk(c)
       IN /\ CanSend(chan[c])
          /\ registry' = Retain(registry, passIdx, ok)
          /\ passIdx' = passIdx + 1 - (Len(registry) - Len(registry'))
          /\ chan' = IF ok THEN [chan EXCEPT ![c] = Enqueue(@, mainBuf)] ELSE chan
          /\ sent' = IF ok THEN [sent EXCEPT ![c] = Append(@, mainBuf.id)] ELSE sent
          /\ removed' = IF Len(registry') < Len(registry)
                          THEN [removed EXCEPT ![c] = @ + 1] ELSE removed
          /\ deadSends' = IF rxAlive[c] THEN deadSends
                                         ELSE [deadSends EXCEPT ![c] = @ + 1]
    /\ UNCHANGED <<envVars, readerVars, mainPc, mainBuf, lock, poisoned,
                   acceptorVars,
                   rxAlive, writerVars, sockOpen, passId, passSnap, regPass,
                   regRead>>

\* End of the loop body: the MutexGuard and buf are dropped.
MainUnlock ==
    /\ mainPc = "send"
    /\ passIdx > Len(registry)
    /\ lock' = "free"
    /\ mainBuf' = NoChunk
    /\ mainPc' = "recv"
    /\ passIdx' = 1
    /\ UNCHANGED <<envVars, readerVars, registry, poisoned, acceptorVars, chan,
                   rxAlive, writerVars, sockOpen, histVars>>


\* ------------------------------------- listener thread (handle_tcp_listener)
\* Faulty variant: a bind error ends the whole process.
ListenerBindExits ==
    /\ acceptorPc = "bind"
    /\ \E ok \in BOOLEAN :
         IF ok THEN /\ acceptorPc' = "accept"
                    /\ UNCHANGED <<readerVars, mainVars>>
               ELSE /\ acceptorPc' = "done"
                    /\ readerPc' = "done"
                    /\ mainPc' = "returned"
                    /\ UNCHANGED <<readResult, nread, serialQ, serialRxAlive,
                                   mainBuf, passIdx>>
    /\ UNCHANGED <<envVars, sharedVars, nclients, chan, rxAlive, writerVars,
                   sockOpen, histVars>>

\* TcpListener::bind / local_addr: Err -> return.
ListenerBind ==
    /\ acceptorPc = "bind"
    /\ \E ok \in BOOLEAN : acceptorPc' = IF ok THEN "accept" ELSE "done"
    /\ UNCHANGED <<envVars, readerVars, mainVars, sharedVars, nclients, chan,
                   rxAlive,
                   writerVars, sockOpen, histVars>>

\* incoming() yields Err: `continue`.
ListenerAcceptErr ==
    /\ acceptorPc = "accept"
    /\ UNCHANGED vars

\* incoming() yields Ok(stream); mpsc::channel() creates the client's channel.
ListenerAccept ==
    /\ acceptorPc = "accept"
    /\ nclients < srcClients
    /\ nclients' = nclients + 1
    /\ rxAlive' = [rxAlive EXCEPT ![nclients + 1] = TRUE]
    /\ sockOpen' = [sockOpen EXCEPT ![nclients + 1] = TRUE]
    /\ acceptorPc' = "lock"
    /\ UNCHANGED <<envVars, readerVars, mainVars, sharedVars, chan, writerVars,
                   histVars>>

\* Faulty variant: the listener goes on to push without waiting for the Mutex.
ListenerLockNoWait ==
    /\ acceptorPc = "lock"
    /\ acceptorPc' = "push"
    /\ UNCHANGED <<envVars, readerVars, mainVars, sharedVars, nclients, chan,
                   rxAlive,
                   writerVars, sockOpen, histVars>>

\* tcp_write_senders.lock(): Err (poisoned) -> continue, dropping the channel
\* and the stream; otherwise block until the Mutex is free and take it.
ListenerLock ==
    /\ acceptorPc = "lock"
    /\ IF poisoned
         THEN /\ acceptorPc' = "accept"
              /\ rxAlive' = [rxAlive EXCEPT ![nclients] = FALSE]
              /\ sockOpen' = [sockOpen EXCEPT ![nclients] = FALSE]
              /\ wPc' = [wPc EXCEPT ![nclients] = "closed"]
              /\ UNCHANGED lock
         ELSE /\ lock = "free"
              /\ lock' = "listener"
              /\ acceptorPc' = "push"
              /\ UNCHANGED <<rxAlive, sockOpen, wPc>>
    /\ UNCHANGED <<envVars, readerVars, mainVars, registry, poisoned, nclients,
                   chan,
                   wBuf, written, histVars>>

\* tcp_write_senders.push(tcp_write_tx); the guard is dropped at the block's end.
ListenerPush ==
    /\ acceptorPc = "push"
    /\ registry' = Append(registry, nclients)
    /\ lock' = "free"
    /\ acceptorPc' = "spawn"
    /\ regPass' = [regPass EXCEPT ![nclients] = passId]
    /\ regRead' = [regRead EXCEPT ![nclients] = nread]
    /\ UNCHANGED <<envVars, readerVars, mainVars, poisoned, nclients, chan,
                   rxAlive,
                   writerVars, sockOpen, sent, passId, passSnap, removed,
                   deadSends>>

\* Fault: Vec::push panics (capacity overflow) under the MutexGuard. The
\* unwinding drops the guard, which marks the Mutex poisoned, and drops the
\* Sender, the Receiver and the stream; the listener thread is gone. Nothing
\* was pushed.
ListenerPushPanic ==
    /\ acceptorPc = "push"
    /\ poisoned' = TRUE
    /\ lock' = "free"
    /\ acceptorPc' = "panicked"
    /\ rxAlive' = [rxAlive EXCEPT ![nclients] = FALSE]
    /\ sockOpen' = [sockOpen EXCEPT ![nclients] = FALSE]
    /\ UNCHANGED <<envVars, readerVars, mainVars, registry, nclients, chan,
                   writerVars, histVars>>

\* thread::spawn(move || handle_tcp_stream(stream, tcp_write_rx)).
ListenerSpawn ==
    /\ acceptorPc = "spawn"
    /\ wPc' = [wPc EXCEPT ![nclients] = "connected"]
    /\ acceptorPc' = "accept"
    /\ UNCHANGED <<envVars, readerVars, mainVars, sharedVars, nclients, chan,
                   rxAlive,
                   wBuf, written, sockOpen, histVars>>

\* ----------------------------------------- writer thread (handle_tcp_stream)
\* The thread returns: tcp_writer_rx is dropped with whatever is queued on it.
WriterClose(c) ==
    /\ wPc' = [wPc EXCEPT ![c] = "closed"]
    /\ rxAlive' = [rxAlive EXCEPT ![c] = FALSE]
    /\ chan' = [chan EXCEPT ![c] = <<>>]
    /\ wBuf' = [wBuf EXCEPT ![c] = NoChunk]

\* stream.peer_addr(): Err -> return.
WriterStart(c) ==
    /\ wPc[c] = "connected"
    /\ IF sockOpen[c]
         THEN /\ wPc' = [wPc EXCEPT ![c] = "streaming"]
              /\ UNCHANGED <<rxAlive, chan, wBuf>>
         ELSE WriterClose(c)
    /\ UNCHANGED <<envVars, readerVars, mainVars, sharedVars, acceptorVars,
                   written,
                   sockOpen, histVars>>

\* `for buf in tcp_writer_rx`: the next chunk; the iterator ends when the queue
\* is empty and the Sender is dropped.
WriterRecv(c) ==
    /\ wPc[c] = "streaming"
    /\ chan[c] # <<>> \/ ~TxAlive(c)
    /\ IF chan[c] # <<>>
         THEN /\ wBuf' = [wBuf EXCEPT ![c] = Head(chan[c])]
              /\ chan' = [chan EXCEPT ![c] = Tail(@)]
              /\ wPc' = [wPc EXCEPT ![c] = "writing"]
              /\ UNCHANGED rxAlive
         ELSE WriterClose(c)
    /\ UNCHANGED <<envVars, readerVars, mainVars, sharedVars, acceptorVars,
                   written,
                   sockOpen, histVars>>

\* Faulty variant: the result of write_all is ignored and the loop goes on.
WriterWriteIgnoresError(c) ==
    /\ wPc[c] = "writing"
    /\ written' = IF sockOpen[c] THEN [written EXCEPT ![c] = Append(@, wBuf[c])]
                                ELSE written
    /\ wBuf' = [wBuf EXCEPT ![c] = NoChunk]
    /\ wPc' = [wPc EXCEPT ![c] = "streaming"]
    /\ UNCHANGED <<envVars, readerVars, mainVars, sharedVars, acceptorVars,
                   rxAlive, chan, sockOpen, histVars>>

\* stream.write_all(buf.as_slice()): Ok -> continue, Err -> break. The write
\* fails when the peer has closed the connection.
WriterWrite(c) ==
    /\ wPc[c] = "writing"
    /\ IF sockOpen[c]
         THEN /\ written' = [written EXCEPT ![c] = Append(@, wBuf[c])]
              /\ wBuf' = [wBuf EXCEPT ![c] = NoChunk]
              /\ wPc' = [wPc EXCEPT ![c] = "streaming"]
              /\ UNCHANGED <<rxAlive, chan>>
         ELSE /\ WriterClose(c)
              /\ UNCHANGED written
    /\ UNCHANGED <<envVars, readerVars, mainVars, sharedVars, acceptorVars,
                   sockOpen,
                   histVars>>

\* Environment: the peer closes an accepted connection.
PeerClose(c) ==
    /\ c <= nclients
    /\ sockOpen[c]
    /\ sockOpen' = [sockOpen EXCEPT ![c] = FALSE]
    /\ UNCHANGED <<envVars, readerVars, mainVars, sharedVars, acceptorVars,
                   chan,
                   rxAlive, writerVars, histVars>>

\* ------------------------------------------------------------ specification
Next ==
    \/ SerialReadOk
    \/ SerialReadTimeout
    \/ SerialReadErr
    \/ MainRecv
    \/ MainLoopEnd
    \/ MainJoinListener
    \/ MainLock
    \/ MainSend
    \/ MainUnlock
    \/ ListenerBind
    \/ ListenerAcceptErr
    \/ ListenerAccept
    \/ ListenerLock
    \/ ListenerPush
    \/ ListenerSpawn
    \/ \E c \in Clients : WriterStart(c)
    \/ \E c \in Clients : WriterRecv(c)
    \/ \E c \in Clients : WriterWrite(c)
    \/ \E c \in Clients : PeerClose(c)

Spec == Init /\ [][Next]_vars

ScenarioSpec == ScenarioInit /\ [][Next]_vars

\* Scheduling: a thread that can take its next step takes it eventually. The
\* main thread's steps and the step under the listener's MutexGuard are the
\* ones the program's progress depends on.
Fairness ==
    /\ WF_vars(MainRecv)
    /\ WF_vars(MainLoopEnd)
    /\ WF_vars(MainLock)
    /\ WF_vars(MainSend)
    /\ WF_vars(MainUnlock)
    /\ WF_vars(ListenerPush)

FairSpec == Init /\ [][Next]_vars /\ Fairness

\* The program with the one fault that can poison the registry's Mutex, for
\* two clients.
PoisonInit == InitFor(MaxChunks, ScenarioClients)

PoisonNext == Next \/ ListenerPushPanic

PoisonSpec == PoisonInit /\ [][PoisonNext]_vars


\* ---------------------------------------------------------------- vocabulary
\* The client's sender has been pushed into the registry at some time.
Registered(c) ==
    /\ c <= nclients
    /\ ~(acceptorPc \in {"lock", "push"} /\ c = nclients)

\* The running pass has not visited the client's sender yet.
Unvisited(c) ==
    /\ mainPc = "send"
    /\ \E i \in passIdx..Len(registry) : registry[i] = c

StrictlyIncreasing(s) == \A i, j \in 1..Len(s) : i < j => s[i] < s[j]

\* ------------------------------------------------------------------- claims

\* C1 (fan-out completeness): every client that was in the registry when the
\* pass for a chunk took the lock has that chunk enqueued or is out of the
\* registry once the pass has visited it; after the pass, none is still
\* registered without the chunk.
FanOutComplete ==
    \A c \in passSnap :
        \/ Unvisited(c)
        \/ passId \in Range(sent[c])
        \/ c \notin Range(registry)

\* The pass for the first chunk enqueued it for the client, the pass for the
\* second chunk has ended and pruned the client.
FanOutCompleteWitness ==
    /\ mainPc = "recv"
    /\ passId = 2
    /\ passSnap = {1}
    /\ sent[1] = <<1>>
    /\ 1 \notin Range(registry)

\* C2 (per-client ordering): at every moment the chunks written to a client's
\* socket are in the order the reader produced them (increasing ids), none
\* of them twice.
PerClientOrder ==
    \A c \in Clients : StrictlyIncreasing(Ids(written[c]))

\* A client has had several chunks written.
PerClientOrderWitness == \E c \in Clients : Len(written[c]) >= 2

\* C3 (late-join isolation): a chunk whose pass had taken the lock before the
\* client's sender was pushed is never enqueued on the client's channel nor
\* written to its socket.
LateJoinIsolation ==
    \A c \in Clients :
        /\ \A i \in 1..Len(sent[c]) : sent[c][i] > regPass[c]
        /\ \A i \in 1..Len(written[c]) : written[c][i].id > regPass[c]

\* A client registered after the first pass has the second chunk written, only.
LateJoinWitness ==
    \E c \in Clients :
        /\ regPass[c] = 1
        /\ Ids(written[c]) = <<2>>

\* C4 as stated (dead-client pruning): after a writer has failed no broadcast
\* attempts a send to its sender, and no sender is removed twice.
PruningNeverAttempts ==
    \A c \in Clients : deadSends[c] = 0 /\ removed[c] <= 1

\* C4 as amended: after a writer has ended, at most one send is attempted on
\* its sender; that send fails, enqueues nothing and removes the sender, once;
\* the registry holds the registered senders less the removed ones.
PruningOnce ==
    /\ \A c \in Clients :
        /\ deadSends[c] <= 1
        /\ removed[c] = deadSends[c]
        /\ ~rxAlive[c] => chan[c] = <<>>
        /\ removed[c] = 1 => c \notin Range(registry)
    /\ Len(registry) = Cardinality({c \in Clients : Registered(c) /\ removed[c] = 0})

\* A writer failed after a chunk had been enqueued for it, and the next pass
\* pruned its sender.
PruningOnceWitness ==
    /\ sent[1] = <<1>>
    /\ wPc[1] = "closed"
    /\ deadSends[1] = 1
    /\ removed[1] = 1
    /\ registry = <<>>

\* C5 (timeout transparency): a read that times out publishes nothing and
\* leaves the reader running; the reader has terminated only after a read
\* error that is not a timeout.
TimeoutTransparent ==
    /\ [](readerPc = "done" => readResult = "error")
    /\ [][readResult' = "timeout" =>
            /\ nread' = nread
            /\ readerPc' = readerPc
            /\ Len(serialQ') <= Len(serialQ)]_vars

\* The reader timed out after two chunks and is still running.
TimeoutWitness ==
    /\ readResult = "timeout"
    /\ nread = 2
    /\ readerPc = "run"


\* ------------------------------------------------- scenarios (ScenarioSpec)
\* The peer closed the client's connection after chunk A (id 1) was written.
ClosedAfterA(c) == Ids(written[c]) = <<1>> /\ ~sockOpen[c]

\* The pass for chunk k has just taken the lock and has visited no sender yet.
PassStarts(k) ==
    /\ mainPc = "send"
    /\ passId = k
    /\ passIdx = 1
    /\ Range(registry) = passSnap

\* The client's writer, if it still runs, has got no further than chunk B.
WriterNoFurtherThanB(c) ==
    /\ wPc[c] = "writing" => wBuf[c].id = 2
    /\ wPc[c] = "streaming" /\ chan[c] # <<>> => Head(chan[c]).id = 2

\* The fan-out loop, inside a pass, can always take its next step.
PassNeverBlocks == mainPc = "send" => ENABLED MainSend \/ ENABLED MainUnlock

\* C6 as stated (client disconnect mid-stream): with chunks A, B, C and a
\* client whose peer closed after A was written, the writer gets no further
\* than its failed write of B, the client's sender is out of the registry at
\* the moment the pass for C starts, and the fan-out loop never blocks.
DisconnectPrunedBeforeC ==
    \A c \in Clients :
        ClosedAfterA(c) =>
            /\ WriterNoFurtherThanB(c)
            /\ PassStarts(3) => c \notin Range(registry)
            /\ PassNeverBlocks

\* C6 as amended: the writer gets no further than its failed write of B and
\* the fan-out loop never blocks; the sender is removed by the first pass
\* that visits it after the writer has ended, so once the pass for C has
\* visited it, it is out of the registry or C was enqueued on it (the writer
\* had not ended yet at that visit).
DisconnectPrunedOnVisit ==
    \A c \in Clients :
        ClosedAfterA(c) =>
            /\ WriterNoFurtherThanB(c)
            /\ passId = 3 /\ c \in passSnap /\ ~Unvisited(c)
                   => c \notin Range(registry) \/ 3 \in Range(sent[c])
            /\ ~rxAlive[c] /\ c \in Range(registry) => deadSends[c] = 0
            /\ PassNeverBlocks

\* Client 1's peer closed after A, its writer failed on B, and the pass for C
\* has ended and pruned its sender.
DisconnectWitness ==
    /\ ClosedAfterA(1)
    /\ sent[1] = <<1, 2>>
    /\ wPc[1] = "closed"
    /\ passId = 3
    /\ mainPc = "recv"
    /\ 1 \notin Range(registry)

IsPrefix(s, t) == Len(s) <= Len(t) /\ \A i \in 1..Len(s) : s[i] = t[i]

\* The chunks A and B (ids 1 and 2) among those written to the client's socket.
WrittenAB(c) == SelectSeq(Ids(written[c]), LAMBDA k : k <= 2)

\* The client's writer runs, its socket is open, and it has written all that
\* the passes for A and B enqueued for it.
Settled(c) ==
    /\ sockOpen[c]
    /\ wPc[c] = "streaming"
    /\ chan[c] = <<>>
    /\ passId > 2 \/ (passId = 2 /\ mainPc # "send")

\* Client 1 receives A, B and client 2 receives B, and nothing else of A, B.
ReceiveABandB ==
    /\ IsPrefix(WrittenAB(1), <<1, 2>>)
    /\ IsPrefix(WrittenAB(2), <<2>>)
    /\ Settled(1) => WrittenAB(1) = <<1, 2>>
    /\ Settled(2) => WrittenAB(2) = <<2>>

\* C7 as stated (two clients, sequential join): client 1 is registered before
\* the reader reads A, client 2 after the reader has read A and before it
\* reads B; then client 1 receives exactly A, B and client 2 exactly B.
SequentialJoinByRead ==
    (/\ Registered(1) /\ regRead[1] = 0
     /\ Registered(2) /\ regRead[2] = 1) => ReceiveABandB

\* C7 as amended: client 1 is registered before the pass for A takes the
\* registry lock, client 2 after the pass for A has taken it and before the
\* pass for B takes it; then client 1 receives exactly A, B and client 2
\* exactly B.
SequentialJoinByPass ==
    (/\ Registered(1) /\ regPass[1] = 0
     /\ Registered(2) /\ regPass[2] = 1) => ReceiveABandB

\* Both clients joined as in the amended scenario and have received their chunks.
SequentialJoinWitness ==
    /\ Registered(1) /\ regPass[1] = 0
    /\ Registered(2) /\ regPass[2] = 1
    /\ Settled(1) /\ WrittenAB(1) = <<1, 2>>
    /\ Settled(2) /\ WrittenAB(2) = <<2>>

\* --------------------------------------------------------- claims, continued
NoDuplicates(s) == \A i, j \in 1..Len(s) : i # j => s[i] # s[j]

\* Registered clients whose writer has not ended (its Receiver exists).
LiveClients == {c \in Clients : Registered(c) /\ rxAlive[c]}

\* C8 as stated (registry invariant): the registry holds exactly the senders
\* of the clients whose writer has not observed a failure, without duplicates.
RegistryExactlyLive ==
    /\ NoDuplicates(registry)
    /\ Range(registry) = LiveClients

\* C8 as amended: the registry holds no duplicates and only registered
\* senders, among them every client's whose writer has not ended; the sender
\* of an ended writer stays until a pass visits it, and a registered sender
\* that has left the registry is that of an ended writer, removed by a
\* failed send.
RegistryCoversLive ==
    /\ NoDuplicates(registry)
    /\ LiveClients \subseteq Range(registry)
    /\ Range(registry) \subseteq {c \in Clients : Registered(c)}
    /\ \A c \in Clients :
         /\ c \in Range(registry) /\ ~rxAlive[c] => deadSends[c] = 0
         /\ Registered(c) /\ c \notin Range(registry)
                => ~rxAlive[c] /\ removed[c] = 1

\* A writer has ended and its sender is still in the registry.
RegistryWitness ==
    /\ registry = <<1>>
    /\ wPc[1] = "closed"
    /\ Len(written[1]) >= 1

\* C9 (a stalled client stalls nobody): while a writer is blocked in its
\* socket write, the reader can publish the chunk it reads, the fan-out loop
\* can take its next step, and every other registered client whose writer
\* runs has every chunk since its registration enqueued.
StalledClientStallsNobody ==
    \A b \in Clients :
        wPc[b] = "writing" =>
            /\ readerPc = "run" /\ nread < srcChunks => ENABLED SerialReadOk
            /\ mainPc = "recv" /\ serialQ # <<>> => ENABLED MainRecv
            /\ mainPc = "send" => ENABLED MainSend \/ ENABLED MainUnlock
            /\ \A c \in LiveClients \ {b} :
                 \A k \in (regPass[c] + 1)..passId :
                     k \in Range(sent[c]) \/ (k = passId /\ Unvisited(c))

\* Client 1 is still in the write of the first chunk, with the other two
\* queued behind it, while client 2 has had all three written.
StalledClientWitness ==
    /\ wPc[1] = "writing"
    /\ wBuf[1].id = 1
    /\ Ids(chan[1]) = <<2, 3>>
    /\ Ids(written[2]) = <<1, 2, 3>>

\* C10 as stated: at most one chunk published by the reader is waiting to be
\* taken by the fan-out loop.
AtMostOneInFlight == Len(serialQ) <= 1

\* C10 as amended: the channel is unbounded; the reader's publish never
\* waits, and the chunks published and not yet taken (any number of them, up to
\* all that were read) are queued in the order they were read, the one the
\* fan-out loop holds being the one read just before them.
ReaderChannelUnbounded ==
    /\ Len(serialQ) <= nread
    /\ \A i \in 1..Len(serialQ) : serialQ[i].id = nread - Len(serialQ) + i
    /\ mainBuf # NoChunk => mainBuf.id = nread - Len(serialQ)
    /\ readerPc = "run" /\ nread < srcChunks => ENABLED SerialReadOk

\* The reader has published two chunks and the fan-out loop has taken none.
ReaderAheadWitness ==
    /\ Len(serialQ) >= 2
    /\ mainPc = "recv"
    /\ passId = 0

\* C11 (chunk size): every chunk the reader has published is non-empty and at
\* most BufSize bytes long; a successful read of 0 bytes publishes nothing.
PublishedChunksNonEmpty ==
    \A i \in 1..Len(serialQ) : 0 < serialQ[i].len /\ serialQ[i].len <= BufSize

\* The `for buf in serial_reader_rx` loop of run has ended.
FanOutEnded == mainPc \in {"join", "returned"}

\* C12 (reader error ends the fan-out loop): once the reader has terminated
\* on a read error the fan-out loop eventually ends; when it has ended, every
\* chunk the reader published has been taken and its pass has been made; from
\* then on the acceptor can still take the lock and push, and no chunk is
\* enqueued on any client's channel any more.
ReaderErrorEndsFanOut ==
    /\ [](FanOutEnded => /\ readerPc = "done"
                         /\ readResult = "error"
                         /\ serialQ = <<>>
                         /\ mainBuf = NoChunk
                         /\ passId = nread
                         /\ lock # "main"
                         /\ (acceptorPc = "lock" => ENABLED ListenerLock))
    /\ [][FanOutEnded => /\ sent' = sent
                         /\ \A c \in Clients : Len(chan'[c]) <= Len(chan[c])]_vars
    /\ (readerPc = "done") ~> FanOutEnded

\* The loop has ended after the passes for both chunks, and the acceptor has
\* accepted a connection whose sender it is about to register.
ReaderErrorWitness ==
    /\ FanOutEnded
    /\ nread = 2
    /\ passId = 2
    /\ acceptorPc = "lock"
    /\ registry = <<>>

\* The ids of the chunks that reached the client's writer, in the order it
\* handles them: written, being written, still queued on its channel.
Handled(c) ==
    Ids(written[c]) \o (IF wPc[c] = "writing" THEN <<wBuf[c].id>> ELSE <<>>)
                    \o Ids(chan[c])

\* The step is a write error in the writer of client c.
WriteErrorOf(c) == wPc[c] = "writing" /\ wPc'[c] = "closed"

\* C13 (write-error isolation): the step in which a client's write fails ends
\* that client's writer and changes nothing of the reader, the fan-out loop,
\* the acceptor, the registry or any other client; and with a writer ended,
\* every other registered client whose writer runs is still in the registry,
\* has had every chunk since its registration enqueued, and its writer handles
\* exactly those chunks in that order.
WriteErrorIsolated ==
    /\ [][\A c \in Clients :
            WriteErrorOf(c) =>
                /\ UNCHANGED <<readerVars, mainVars, sharedVars, acceptorVars>>
                /\ \A d \in Clients \ {c} :
                     /\ wPc'[d] = wPc[d]
                     /\ rxAlive'[d] = rxAlive[d]
                     /\ chan'[d] = chan[d]
                     /\ written'[d] = written[d]]_vars
    /\ [](\A b \in Clients :
            wPc[b] = "closed" =>
                \A c \in LiveClients \ {b} :
                    /\ c \in Range(registry)
                    /\ Len(sent[c]) = passId - regPass[c]
                                        - (IF Unvisited(c) THEN 1 ELSE 0)
                    /\ Handled(c) = sent[c])

\* Client 1's write of the second chunk failed and ended its writer, while
\* client 2 had all three chunks written and the other threads still run.
WriteErrorWitness ==
    /\ wPc[1] = "closed"
    /\ Ids(written[1]) = <<1>>
    /\ sent[1] = <<1, 2>>
    /\ Ids(written[2]) = <<1, 2, 3>>
    /\ readerPc = "run"
    /\ mainPc = "recv"
    /\ acceptorPc = "accept"

\* The fan-out loop is at its lock() call and the Mutex is poisoned.
LockFails == mainPc = "lock" /\ poisoned

\* C14 (poisoned registry lock): when lock() fails for a chunk the fan-out
\* loop's step is possible (no deadlock) and leads back to taking the next
\* chunk, with the chunk enqueued on no client's channel and the registry
\* unchanged; the loop still ends only when the reader has returned and its
\* channel is drained.
PoisonedLockSkips ==
    /\ [](LockFails => ENABLED MainLock)
    /\ [][LockFails /\ mainPc' # mainPc =>
            /\ mainPc' = "recv"
            /\ mainBuf' = NoChunk
            /\ UNCHANGED <<sent, chan, registry, passId, serialQ>>]_vars
    /\ [](poisoned /\ mainPc = "recv" /\ serialQ # <<>> => ENABLED MainRecv)
    /\ [](poisoned => mainPc # "send")
    /\ [](poisoned /\ FanOutEnded => readerPc = "done" /\ serialQ = <<>>)

\* Client 1 is registered and its writer runs; the push for client 2
\* poisoned the lock after the pass for the first chunk; the second chunk was
\* taken and skipped, and the loop waits for the next one.
PoisonedLockWitness ==
    /\ poisoned
    /\ registry = <<1>>
    /\ wPc[1] = "streaming"
    /\ rxAlive[1]
    /\ sent[1] = <<1>>
    /\ nread = 2
    /\ serialQ = <<>>
    /\ mainPc = "recv"
    /\ readerPc = "run"

\* handle_tcp_listener returned from its bind or local_addr error arm.
BindFailed == acceptorPc = "done"

\* C15 (bind-failure isolation): the step in which bind fails changes nothing
\* of the reader, the fan-out loop or the registry; after it no client is ever
\* accepted or registered, nothing is enqueued for or written to any client,
\* the reader can still publish and the fan-out loop can still take its next
\* step, and every chunk published is eventually taken and given its (empty)
\* pass.
BindFailureIsolated ==
    /\ [][acceptorPc = "bind" /\ acceptorPc' = "done" =>
            UNCHANGED <<readerVars, mainVars, sharedVars, nclients>>]_vars
    /\ [](BindFailed =>
            /\ nclients = 0
            /\ registry = <<>>
            /\ lock # "listener"
            /\ \A c \in Clients : /\ wPc[c] = "none"
                                  /\ sent[c] = <<>>
                                  /\ chan[c] = <<>>
                                  /\ written[c] = <<>>)
    /\ [](BindFailed =>
            /\ readerPc = "run" /\ nread < srcChunks => ENABLED SerialReadOk
            /\ mainPc = "recv" /\ serialQ # <<>> => ENABLED MainRecv
            /\ mainPc = "lock" => ENABLED MainLock
            /\ mainPc = "send" => ENABLED MainUnlock)
    /\ \A k \in 1..MaxChunks : (BindFailed /\ nread >= k) ~> (passId >= k)

\* The bind failed; the reader, still running, has published two chunks and
\* the fan-out loop has made the pass for both.
BindFailureWitness ==
    /\ BindFailed
    /\ readerPc = "run"
    /\ nread = 2
    /\ passId = 2
    /\ mainPc = "recv"

\* The writer of client c ends in this step.
Closes(c) == wPc[c] # "closed" /\ wPc'[c] = "closed"

\* C16 as stated: a writer enters Closed only on a write error or when its
\* channel is closed, that is, only from Streaming (with a chunk in hand or
\* waiting for one).
ClosedOnlyFromStreaming ==
    [][\A c \in Clients : Closes(c) => wPc[c] \in {"streaming", "writing"}]_vars

\* C16 as amended: a writer moves Connected -> Streaming -> Closed or, when
\* peer_addr fails, Connected -> Closed; it never leaves Closed; from
\* Streaming it closes on a write error or on a closed and drained channel; a
\* chunk taken is appended to the socket's output whole before the next one
\* is taken, or its failed write closes the task with nothing appended;
\* after Closed the task takes no chunk and writes nothing.
WriterLifeCycle ==
    /\ [][\A c \in Clients :
            /\ wPc[c] = "none" => wPc'[c] \in {"none", "connected"}
            /\ wPc[c] = "connected" =>
                 wPc'[c] \in {"connected", "streaming", "closed"}
            /\ wPc[c] = "connected" /\ Closes(c) => ~sockOpen[c]
            /\ wPc[c] = "streaming" =>
                 wPc'[c] \in {"streaming", "writing", "closed"}
            /\ wPc[c] = "streaming" /\ Closes(c) =>
                 chan[c] = <<>> /\ ~TxAlive(c)
            /\ wPc[c] = "streaming" /\ wPc'[c] = "writing" =>
                 /\ chan[c] # <<>>
                 /\ wBuf'[c] = Head(chan[c])
                 /\ chan'[c] = Tail(chan[c])
                 /\ written'[c] = written[c]
            /\ wPc[c] = "writing" => wPc'[c] \in {"writing", "streaming", "closed"}
            /\ wPc[c] = "writing" /\ wPc'[c] = "streaming" =>
                 written'[c] = Append(written[c], wBuf[c])
            /\ wPc[c] = "writing" /\ Closes(c) =>
                 ~sockOpen[c] /\ written'[c] = written[c]
            /\ wPc[c] = "closed" =>
                 /\ wPc'[c] = "closed"
                 /\ written'[c] = written[c]
                 /\ wBuf'[c] = wBuf[c]]_vars
    /\ [](\A c \in Clients :
            /\ wPc[c] = "closed" => ~rxAlive[c] /\ chan[c] = <<>> /\ wBuf[c] = NoChunk
            /\ wPc[c] \in {"none", "connected", "streaming"} => wBuf[c] = NoChunk
            /\ wPc[c] = "writing" => wBuf[c] # NoChunk)

\* A writer that streamed one chunk and was then closed by the failed write
\* of the next.
WriterLifeCycleWitness ==
    \E c \in Clients :
        /\ wPc[c] = "closed"
        /\ Len(written[c]) = 1
        /\ Len(sent[c]) = 2

\* The acceptor is inside its guarded block (push), the fan-out loop is
\* inside a pass (retain_mut under the guard).
InPush == acceptorPc = "push"
InPass == mainPc = "send"

\* C17 (registry access is serialized): a push and a pass are never in
\* progress together, each being made by the holder of the lock; while a pass
\* is in progress the registry holds only senders it held when the pass
\* began, so that a push takes effect before a pass begins or after it
\* ends; and each step leaves the state it found of the other side alone.
RegistrySerialized ==
    /\ [](~(InPush /\ InPass))
    /\ [](InPush <=> lock = "listener")
    /\ [](InPass <=> lock = "main")
    /\ [](InPass => Range(registry) \subseteq passSnap)
    /\ [][InPass /\ InPass' =>
            /\ passSnap' = passSnap
            /\ Len(registry') <= Len(registry)
            /\ Range(registry') \subseteq Range(registry)]_vars
    /\ [][InPush /\ ~InPush' => registry' = Append(registry, nclients)]_vars
    /\ [][registry' # registry => InPush \/ InPass]_vars

\* A connection was accepted while a pass is in progress: the acceptor waits
\* at lock() for the pass to end.
RegistrySerializedWitness ==
    /\ InPass
    /\ acceptorPc = "lock"
    /\ passId = 1
    /\ nread = 2

\* The run of n consecutive chunk ids that follows id k.
RunAfter(k, n) == [i \in 1..n |-> k + i]

\* C18 (gap-free delivery): with the lock never poisoned, the chunks enqueued
\* on a registered client's channel are the consecutive chunks that follow the
\* last pass begun before its registration, none skipped or repeated; while
\* the client's sender is in the registry the run reaches the latest pass that
\* has visited it, and a sender left the registry only by a failed send.
GapFreeDelivery ==
    ~poisoned =>
        \A c \in Clients :
            Registered(c) =>
                /\ sent[c] = RunAfter(regPass[c], Len(sent[c]))
                /\ regPass[c] + Len(sent[c]) <= passId
                /\ c \in Range(registry) =>
                     regPass[c] + Len(sent[c])
                         = passId - (IF Unvisited(c) THEN 1 ELSE 0)
                /\ c \notin Range(registry) =>
                     /\ removed[c] = 1
                     /\ deadSends[c] = 1
                     /\ ~rxAlive[c]

\* A client registered after the pass for the first chunk and pruned by the
\* pass for the third got exactly the second chunk.
GapFreeWitness ==
    \E c \in Clients :
        /\ regPass[c] = 1
        /\ sent[c] = <<2>>
        /\ passId = 3
        /\ c \notin Range(registry)
        /\ Registered(c)

\* C19 (the reader's publish never fails): the Receiver of the reader's
\* channel is dropped only after the reader has returned, so it exists
\* whenever the reader publishes: no publish finds it gone, and the reader
\* never ends from its `error sending data` arm (a return right after a
\* successful read).
ReaderPublishNeverFails ==
    /\ [](~serialRxAlive => readerPc = "done")
    /\ [](readerPc = "done" => readResult # "ok")
    /\ [][readResult' = "ok" /\ nread' = nread + 1 =>
            /\ serialRxAlive
            /\ readerPc' = "run"
            /\ Len(serialQ') = Len(serialQ) + 1]_vars
    /\ [][serialRxAlive /\ ~serialRxAlive' =>
            readerPc = "done" /\ serialQ = <<>>]_vars

\* The reader published two chunks and returned on a read error, and only
\* then was the Receiver dropped.
ReaderPublishWitness ==
    /\ ~serialRxAlive
    /\ readerPc = "done"
    /\ nread = 2
    /\ passId = 2

\* The listener has bound and its thread is in the accept loop.
Bound == acceptorPc \in {"accept", "lock", "push", "spawn"}

\* C20 (no shutdown after a successful bind): once bound, the acceptor stays
\* in its accept loop for ever; run returns only when the bind failed; a
\* spawned writer ends only after its socket failed, and until then its
\* sender stays in the registry, so its channel is never closed; this also
\* with the reader returned and the fan-out loop ended.
NoShutdownAfterBind ==
    /\ [][Bound => Bound']_vars
    /\ [](Bound => mainPc # "returned")
    /\ [](mainPc = "returned" => BindFailed /\ nclients = 0)
    /\ [](Bound /\ FanOutEnded => mainPc = "join" /\ ~ENABLED MainJoinListener)
    /\ [](\A c \in Clients :
            /\ wPc[c] = "closed" => ~sockOpen[c]
            /\ wPc[c] \in {"connected", "streaming", "writing"} =>
                 c \in Range(registry) /\ TxAlive(c) /\ rxAlive[c])

\* The reader returned and the fan-out loop ended after both chunks were
\* written to client 1; run waits in listener_thread.join(), the acceptor
\* waits for connections and the writer for chunks.
NoShutdownWitness ==
    /\ readerPc = "done"
    /\ mainPc = "join"
    /\ acceptorPc = "accept"
    /\ wPc[1] = "streaming"
    /\ sockOpen[1]
    /\ Ids(written[1]) = <<1, 2>>

=============================================================================
